---- MODULE Spec2Model ----
(***************************************************************************)
(* Discrete hidden Markov model of HMM/exhibition.ipynb: the class         *)
(* hmmCHAR(hmm.HMM) with its leaky Baum-Welch step `learn` and its sampler *)
(* `generate`, driven by the notebook's loaddata/forward/backward/learn    *)
(* loop.  hmm.py (loaddata, forward, backward, the constructor) is not     *)
(* part of the sources at hand; those operations follow the written        *)
(* design (scaled forward/backward recursions).                            *)
(*                                                                         *)
(* Numbers are exact non-negative rationals <<n, d>> extended with the two *)
(* IEEE values numpy produces on a division by zero: <<0, 0>> is NaN and   *)
(* <<1, 0>> is +inf.                                                       *)
(***************************************************************************)
EXTENDS Integers, Sequences, FiniteSets, TLC

N == 2          \* hidden states
M == 2          \* alphabet size
MaxT == 2       \* longest loaded observation sequence
MaxL == 2       \* longest generated sequence
MaxSteps == 1   \* learn calls per behaviour
MaxCalls == 5   \* method calls per behaviour when the call order is free
MaxDen == 10    \* largest parameter denominator the exact arithmetic follows

States == 1..N
Symbols == 0..(M - 1)

(***************************************************************************)
(* Extended rational arithmetic (numpy float semantics, exact values).     *)
(***************************************************************************)
RECURSIVE GCD(_, _)
GCD(a, b) == IF b = 0 THEN a ELSE GCD(b, a % b)

NaN == <<0, 0>>
Inf == <<1, 0>>
Zero == <<0, 1>>
One == <<1, 1>>
Half == <<1, 2>>

Norm(n, d) ==
    IF d = 0 THEN (IF n = 0 THEN NaN ELSE Inf)
    ELSE LET g == GCD(n, d) IN <<n \div g, d \div g>>

IsFinite(x) == x[2] # 0
IsPos(x) == x[1] > 0

RMul(x, y) ==
    LET g1 == GCD(x[1], y[2])
        g2 == GCD(y[1], x[2])
    IN  IF g1 = 0 \/ g2 = 0 THEN Norm(x[1] * y[1], x[2] * y[2])
        ELSE Norm((x[1] \div g1) * (y[1] \div g2), (x[2] \div g2) * (y[2] \div g1))

RDiv(x, y) == RMul(x, <<y[2], y[1]>>)

RAdd(x, y) ==
    IF x[2] = 0 \/ y[2] = 0
    THEN (IF x = NaN \/ y = NaN THEN NaN ELSE Inf)
    ELSE LET g == GCD(x[2], y[2])
         IN  Norm(x[1] * (y[2] \div g) + y[1] * (x[2] \div g), (x[2] \div g) * y[2])

RECURSIVE SumTo(_, _)
SumTo(s, n) == IF n = 0 THEN Zero ELSE RAdd(SumTo(s, n - 1), s[n])
RSum(s) == SumTo(s, Len(s))

RECURSIVE ProdTo(_, _)
ProdTo(s, n) == IF n = 0 THEN One ELSE RMul(ProdTo(s, n - 1), s[n])
RProd(s) == ProdTo(s, Len(s))

\* a probability vector numpy.random.choice accepts: no NaN/inf, sums to 1
ValidP(p) == (\A i \in 1..Len(p) : IsFinite(p[i])) /\ RSum(p) = One
Support(p) == {i \in 1..Len(p) : IsPos(p[i])}

(***************************************************************************)
(* The model object.  A, B, Pi are the parameters; O is the loaded         *)
(* sequence; Z, alpha, c, pobs, beta, gamma, xi, psi are the per-sequence  *)
(* quantities (<<>> while the attribute has not been assigned); scaled     *)
(* records that forward has run on the sequence now loaded.                *)
(***************************************************************************)
Unset == <<>>

HMM(A0, B0, Pi0) ==
    [A |-> A0, B |-> B0, Pi |-> Pi0, O |-> Unset, Z |-> Unset, alpha |-> Unset,
     c |-> Unset, pobs |-> Unset, beta |-> Unset, gamma |-> Unset, xi |-> Unset,
     psi |-> Unset, scaled |-> FALSE]

loaddata(self, O) == [self EXCEPT !.O = O, !.scaled = FALSE]

\* Z[t][i] = B[i][O[t]]
EmissionCache(B0, O) == [t \in 1..Len(O) |-> [i \in States |-> B0[i][O[t] + 1]]]

\* one unnormalised row of the forward recursion
ForwardRow(self, Z, prev, t) ==
    IF t = 1
    THEN [i \in States |-> RMul(self.Pi[i], Z[1][i])]
    ELSE [i \in States |->
            RMul(Z[t][i], RSum([j \in States |-> RMul(prev[j], self.A[j][i])]))]

\* divide a row by its scaling factor; a zero factor leaves the row as it is
ScaleRow(row, c) == IF c = Zero THEN row ELSE [i \in States |-> RDiv(row[i], c)]

RECURSIVE ForwardRows(_, _, _)
ForwardRows(self, Z, t) ==
    IF t = 0 THEN <<>>
    ELSE LET done == ForwardRows(self, Z, t - 1)
             raw == ForwardRow(self, Z, IF t = 1 THEN <<>> ELSE done[t - 1].a, t)
             ct == RSum(raw)
         IN  Append(done, [a |-> ScaleRow(raw, ct), c |-> ct])

forward(self) ==
    LET Z == EmissionCache(self.B, self.O)
        rows == ForwardRows(self, Z, Len(self.O))
        c == [t \in 1..Len(self.O) |-> rows[t].c]
    IN  [self EXCEPT !.Z = Z,
                     !.alpha = [t \in 1..Len(self.O) |-> rows[t].a],
                     !.c = c,
                     !.pobs = RProd(c),
                     !.scaled = TRUE]

\* beta rows T, T-1, ..., t (in that order)
RECURSIVE BackwardRows(_, _)
BackwardRows(self, t) ==
    LET T == Len(self.O)
    IN  IF t = T THEN <<[i \in States |-> One]>>
        ELSE LET done == BackwardRows(self, t + 1)
                 next == done[Len(done)]
                 raw == [i \in States |->
                           RSum([j \in States |->
                                   RMul(RMul(self.A[i][j], self.Z[t + 1][j]), next[j])])]
             IN  Append(done, ScaleRow(raw, self.c[t + 1]))

backward(self) ==
    LET T == Len(self.O)
        rev == BackwardRows(self, 1)
    IN  [self EXCEPT !.beta = [t \in 1..T |-> rev[T + 1 - t]]]

(***************************************************************************)
(* hmmCHAR.learn.  Array lengths along the time axis follow numpy's        *)
(* broadcasting: equal lengths, or one of them 1.                          *)
(***************************************************************************)
CanBroadcast(a, b) == a = b \/ a = 1 \/ b = 1
Broadcast(a, b) == IF a = 1 THEN b ELSE a
At(t, len) == IF len = 1 THEN 1 ELSE t
Indicator(b) == IF b THEN One ELSE Zero
Keep == <<9, 10>>
Mix == <<1, 10>>
Leaky(old, new) == RAdd(RMul(Keep, old), RMul(Mix, new))

Gamma(self) ==
    LET Ta == Len(self.alpha)
        Tb == Len(self.beta)
    IN  [t \in 1..Broadcast(Ta, Tb) |-> [i \in States |->
            RDiv(RMul(self.alpha[At(t, Ta)][i], self.beta[At(t, Tb)][i]), self.pobs)]]

XiLen(self) == Broadcast(Broadcast(Len(self.alpha) - 1, Len(self.beta) - 1), Len(self.Z) - 1)

Xi(self) ==
    LET Ta == Len(self.alpha) - 1
        Tb == Len(self.beta) - 1
        Tz == Len(self.Z) - 1
    IN  [t \in 1..XiLen(self) |-> [i \in States |-> [j \in States |->
            RDiv(RMul(RMul(RMul(self.alpha[At(t, Ta)][i], self.A[i][j]),
                           self.beta[1 + At(t, Tb)][j]),
                      self.Z[1 + At(t, Tz)][j]),
                 self.pobs)]]]

Psi(self, gamma) ==
    LET Tg == Len(gamma)
        To == Len(self.O)
    IN  [t \in 1..Broadcast(Tg, To) |-> [i \in States |-> [k \in 1..M |->
            RMul(gamma[At(t, Tg)][i], Indicator(self.O[At(t, To)] = k - 1))]]]

\* sum over the time axis of column i (of entry i, j for a rank-3 array)
SumT2(x, len, i) == RSum([t \in 1..len |-> x[t][i]])
SumT3(x, i, j) == RSum([t \in 1..Len(x) |-> x[t][i][j]])

ANew(self, xi, gamma) ==
    [i \in States |-> [j \in States |->
        Leaky(self.A[i][j], RDiv(SumT3(xi, i, j), SumT2(gamma, Len(gamma) - 1, i)))]]

BNew(self, psi, gamma) ==
    [i \in States |-> [k \in 1..M |->
        Leaky(self.B[i][k], RDiv(SumT3(psi, i, k), SumT2(gamma, Len(gamma), i)))]]

PiNew(self, gamma) == [i \in States |-> Leaky(self.Pi[i], gamma[1][i])]

\* the outcome of learn: the object afterwards and the exception raised, if any
learn(self) ==
    IF Len(self.alpha) = 0 \/ Len(self.beta) = 0
    THEN [self |-> self, raised |-> "AttributeError"]
    ELSE IF ~CanBroadcast(Len(self.alpha), Len(self.beta))
    THEN [self |-> self, raised |-> "ValueError"]
    ELSE LET gamma == Gamma(self)
             s1 == [self EXCEPT !.gamma = gamma]
         IN  IF ~(CanBroadcast(Len(self.alpha) - 1, Len(self.beta) - 1)
                  /\ CanBroadcast(Broadcast(Len(self.alpha) - 1, Len(self.beta) - 1),
                                  Len(self.Z) - 1))
             THEN [self |-> s1, raised |-> "ValueError"]
             ELSE LET xi == Xi(self)
                      s2 == [s1 EXCEPT !.xi = xi]
                  IN  IF ~CanBroadcast(Len(gamma), Len(self.O))
                      THEN [self |-> s2, raised |-> "ValueError"]
                      ELSE LET psi == Psi(self, gamma)
                           IN  [self |-> [s2 EXCEPT !.psi = psi,
                                                    !.A = ANew(self, xi, gamma),
                                                    !.B = BNew(self, psi, gamma),
                                                    !.Pi = PiNew(self, gamma)],
                                raised |-> "none"]

(***************************************************************************)
(* Faulty variants of the sampler, used to see that the properties below   *)
(* depend on it.                                                           *)
(***************************************************************************)
\* symbols numbered from 1 instead of 0
RECURSIVE EmitFromOne(_, _, _)
EmitFromOne(self, s, l) ==
    IF l = 0 THEN {[ok |-> TRUE, O |-> <<>>]}
    ELSE IF ~ValidP(self.B[s]) \/ ~ValidP(self.A[s]) THEN {[ok |-> FALSE, O |-> <<>>]}
    ELSE LET rest == UNION {EmitFromOne(self, s2, l - 1) : s2 \in Support(self.A[s])}
         IN  {[ok |-> r.ok, O |-> IF r.ok THEN <<k>> \o r.O ELSE <<>>] :
                 k \in Support(self.B[s]), r \in rest}

\* the symbol drawn uniformly, the emission row B[s] ignored
RECURSIVE EmitUniform(_, _, _)
EmitUniform(self, s, l) ==
    IF l = 0 THEN {[ok |-> TRUE, O |-> <<>>]}
    ELSE IF ~ValidP(self.B[s]) \/ ~ValidP(self.A[s]) THEN {[ok |-> FALSE, O |-> <<>>]}
    ELSE LET rest == UNION {EmitUniform(self, s2, l - 1) : s2 \in Support(self.A[s])}
         IN  {[ok |-> r.ok, O |-> IF r.ok THEN <<k - 1>> \o r.O ELSE <<>>] :
                 k \in 1..M, r \in rest}

(***************************************************************************)
(* hmmCHAR.generate: every sequence numpy.random.choice can produce.       *)
(***************************************************************************)
RECURSIVE Emit(_, _, _)
Emit(self, s, l) ==
    IF l = 0 THEN {[ok |-> TRUE, O |-> <<>>]}
    ELSE IF ~ValidP(self.B[s]) \/ ~ValidP(self.A[s]) THEN {[ok |-> FALSE, O |-> <<>>]}
    ELSE LET rest == UNION {Emit(self, s2, l - 1) : s2 \in Support(self.A[s])}
         IN  {[ok |-> r.ok, O |-> IF r.ok THEN <<k - 1>> \o r.O ELSE <<>>] :
                 k \in Support(self.B[s]), r \in rest}

\* faulty variant: the result is also kept in self.O
generateStored(self, l) ==
    IF ~ValidP(self.Pi)
    THEN {[self |-> self, ok |-> FALSE, O |-> <<>>]}
    ELSE UNION {{[self |-> IF r.ok THEN [self EXCEPT !.O = r.O] ELSE self,
                  ok |-> r.ok, O |-> r.O] : r \in Emit(self, s, l)} :
                s \in Support(self.Pi)}

generate(self, l) ==
    IF ~ValidP(self.Pi)
    THEN {[self |-> self, ok |-> FALSE, O |-> <<>>]}
    ELSE UNION {{[self |-> self, ok |-> r.ok, O |-> r.O] : r \in Emit(self, s, l)} :
                s \in Support(self.Pi)}

(***************************************************************************)
(* The notebook as a state machine: one action per method call.            *)
(***************************************************************************)
VARIABLES
    hmm,      \* the hmmCHAR object
    last,     \* the method called last
    arg,      \* the length asked of generate, when generate was called last
    ret,      \* what generate returned, when generate was called last
    raised,   \* the condition the last call signalled
    own,      \* the loaded sequence is the one generate has just returned
    steps,    \* learn calls so far
    budget    \* calls the behaviour may still make

vars == <<hmm, last, arg, ret, raised, own, steps, budget>>

Probs == {Zero, Half, One}
Stochastic(n) == {p \in [1..n -> Probs] : RSum(p) = One}
Sequences(maxlen) == UNION {[1..T -> Symbols] : T \in 1..maxlen}

\* x <= y for finite values
RLeq(x, y) == x[1] * y[2] <= y[1] * x[2]
NonIncreasing(p) == \A i \in 1..(Len(p) - 1) : RLeq(p[i + 1], p[i])

\* A freshly constructed model: row-stochastic A, B, Pi, nothing loaded.  The
\* hidden states are numbered by decreasing Pi and the symbols by decreasing
\* B[1], which loses no model up to renaming.
Constructed(calls) ==
    /\ \E A0 \in [States -> Stochastic(N)], B0 \in [States -> Stochastic(M)],
          Pi0 \in Stochastic(N) :
            /\ NonIncreasing(Pi0)
            /\ NonIncreasing(B0[1])
            /\ hmm = HMM(A0, B0, Pi0)
    /\ last = "init"
    /\ arg = 0
    /\ ret = <<>>
    /\ raised = "none"
    /\ own = FALSE
    /\ steps = 0
    /\ budget = calls

\* the notebook needs four calls per training step, then generate, loaddata, forward
Init == Constructed(4 * MaxSteps + 3)
InitAnyOrder == Constructed(MaxCalls)

\* the parameters are within the range the exact arithmetic can follow
Representable(self) ==
    /\ \A i \in States, j \in States : self.A[i][j][2] <= MaxDen
    /\ \A i \in States, k \in 1..M : self.B[i][k][2] <= MaxDen
    /\ \A i \in States : self.Pi[i][2] <= MaxDen

\* another call can be made, and its arithmetic followed
Ready == budget > 0
Computable == Ready /\ Representable(hmm)

\* bookkeeping of a call to `op` that signalled `sig`
Called(op, sig) ==
    /\ budget' = budget - 1
    /\ last' = op
    /\ raised' = sig

NoReturn == arg' = 0 /\ ret' = <<>>

LoadData(O) ==
    /\ Ready
    /\ hmm' = loaddata(hmm, O)
    /\ Called("loaddata", "none")
    /\ own' = (last = "generate" /\ raised = "none" /\ O = ret)
    /\ NoReturn
    /\ UNCHANGED steps

\* a sequence handed over by the sampling collaborator
LoadSample == \E O \in Sequences(MaxT) : LoadData(O)

\* the sequence generate has just returned, loaded for scoring or training
LoadGenerated ==
    /\ last = "generate"
    /\ raised = "none"
    /\ Len(ret) > 0
    /\ LoadData(ret)

Forward ==
    /\ Computable
    /\ Len(hmm.O) > 0
    /\ hmm' = forward(hmm)
    /\ Called("forward", IF hmm'.pobs = Zero THEN "DegenerateSequence" ELSE "none")
    /\ NoReturn
    /\ UNCHANGED <<own, steps>>

Backward ==
    /\ Computable
    /\ Len(hmm.O) > 0
    /\ IF hmm.scaled
       THEN /\ hmm' = backward(hmm)
            /\ Called("backward", IF hmm.pobs = Zero THEN "DegenerateSequence" ELSE "none")
       ELSE /\ hmm' = hmm
            /\ Called("backward", "UnscaledSequence")
    /\ NoReturn
    /\ UNCHANGED <<own, steps>>

Learn ==
    /\ Computable
    /\ steps < MaxSteps
    /\ Len(hmm.O) > 0
    /\ LET r == learn(hmm)
       IN  /\ hmm' = r.self
           /\ Called("learn", r.raised)
    /\ steps' = steps + 1
    /\ own' = FALSE
    /\ NoReturn

Generate ==
    /\ Ready
    /\ \E l \in 0..MaxL :
        \E r \in generate(hmm, l) :
            /\ hmm' = r.self
            /\ Called("generate", IF r.ok THEN "none" ELSE "ValueError")
            /\ arg' = l
            /\ ret' = r.O
            /\ own' = FALSE
            /\ UNCHANGED steps

(***************************************************************************)
(* The notebook's call order: training steps loaddata, forward, backward,  *)
(* learn on sampled sequences; generate on the fresh or the trained model; *)
(* the generated sequence loaded and scored by forward.                    *)
(***************************************************************************)
NbLoadSample == last \in {"init", "learn"} /\ steps < MaxSteps /\ LoadSample
NbForward == last = "loaddata" /\ Forward
NbBackward == last = "forward" /\ ~own /\ Backward
NbLearn == last = "backward" /\ Learn
NbGenerate == last \in {"init", "learn"} /\ Generate
NbLoadGenerated == LoadGenerated

Next == NbLoadSample \/ NbForward \/ NbBackward \/ NbLearn \/ NbGenerate \/ NbLoadGenerated

\* the training methods called in any order, as the class allows
NextAnyOrder == LoadSample \/ Forward \/ Backward \/ Learn

Spec == Init /\ [][Next]_vars
SpecAnyOrder == InitAnyOrder /\ [][NextAnyOrder]_vars

(***************************************************************************)
(* Vocabulary of the properties.                                           *)
(***************************************************************************)
Params(self) == <<self.A, self.B, self.Pi>>

SameShape(self) ==
    /\ DOMAIN self.A = States
    /\ DOMAIN self.B = States
    /\ DOMAIN self.Pi = States
    /\ \A i \in States : DOMAIN self.A[i] = States /\ DOMAIN self.B[i] = 1..M

RowsSumToOne(self) ==
    /\ \A i \in States : RSum(self.A[i]) = One /\ RSum(self.B[i]) = One
    /\ RSum(self.Pi) = One

AllFinite(self) ==
    /\ \A i \in States, j \in States : IsFinite(self.A[i][j])
    /\ \A i \in States, k \in 1..M : IsFinite(self.B[i][k])
    /\ \A i \in States : IsFinite(self.Pi[i])

RowStochastic(self) == SameShape(self) /\ AllFinite(self) /\ RowsSumToOne(self)

\* a probability that is a number greater than zero
Positive(x) == IsPos(x) /\ IsFinite(x)

\* pobs of the sequence O under the parameters of self
Score(self, O) == forward(loaddata(self, O)).pobs

(***************************************************************************)
(* C1: after any number of training steps (loaddata, forward, backward,    *)
(* learn) from row-stochastic A, B, Pi, every row of A and of B sums to 1, *)
(* Pi sums to 1, and the shapes are those of the construction.             *)
(* learn does not keep this: C1_RowsStayStochastic is violated.            *)
(***************************************************************************)
C1_RowsStayStochastic == SameShape(hmm) /\ RowsSumToOne(hmm)

(***************************************************************************)
(* C2: on a row-stochastic model generate(L) raises nothing and returns    *)
(* exactly L symbols, each in [0, M); for L = 0 the result is empty.       *)
(***************************************************************************)
C2_GenerateLength ==
    (last = "generate" /\ RowStochastic(hmm)) =>
        /\ raised = "none"
        /\ Len(ret) = arg
        /\ \A i \in 1..Len(ret) : ret[i] \in Symbols

C2_Witness ==
    last = "generate" /\ RowStochastic(hmm) /\ arg > 1 /\ Len(ret) = arg /\ steps > 0

(***************************************************************************)
(* C4: a sequence returned by generate, loaded and scored by forward under *)
(* the same (row-stochastic) model, has pobs > 0.                          *)
(***************************************************************************)
C4_RoundTrip ==
    (last = "forward" /\ own /\ RowStochastic(hmm)) => Positive(hmm.pobs)

C4_Witness ==
    /\ last = "forward" /\ own /\ RowStochastic(hmm)
    /\ Len(hmm.O) > 1
    /\ \E i \in States, k \in 1..M : hmm.B[i][k] = Zero

C6_DegenerateIsNoOp ==
    [][(last' = "learn" /\ hmm.scaled /\ hmm.pobs = Zero) =>
            (Params(hmm') = Params(hmm) /\ AllFinite(hmm'))]_vars

(***************************************************************************)
(* C7: when learn finds a hidden state i whose gamma sums to 0 over the    *)
(* sequence, row i of A and row i of B stay as they were and hold no NaN.  *)
(* learn divides by that sum unguarded: C7_UnvisitedRowKept is violated.   *)
(***************************************************************************)
C7_UnvisitedRowKept ==
    [][(last' = "learn" /\ raised' = "none") =>
            \A i \in States :
                SumT2(hmm'.gamma, Len(hmm'.gamma), i) = Zero =>
                    /\ hmm'.A[i] = hmm.A[i]
                    /\ hmm'.B[i] = hmm.B[i]
                    /\ \A j \in States : IsFinite(hmm'.A[i][j])
                    /\ \A k \in 1..M : IsFinite(hmm'.B[i][k])]_vars

(***************************************************************************)
(* C8: for a non-degenerate sequence, the gamma learn computes from the    *)
(* row-normalised alpha and the beta scaled by the same factors sums to 1  *)
(* over the hidden states at every time step.                              *)
(* learn divides alpha*beta by pobs: C8_GammaSumsToOne is violated.        *)
(***************************************************************************)
C8_GammaSumsToOne ==
    [][(/\ last' = "learn"
        /\ raised' = "none"
        /\ last = "backward"
        /\ hmm.scaled
        /\ Positive(hmm.pobs)) =>
            \A t \in 1..Len(hmm'.gamma) : RSum(hmm'.gamma[t]) = One]_vars

C10_SupportKept ==
    [][(/\ last' = "learn"
        /\ raised' = "none"
        /\ last = "backward"
        /\ hmm.scaled
        /\ Positive(hmm.pobs)
        /\ \A i \in States : Positive(SumT2(hmm'.gamma, Len(hmm'.gamma), i))) =>
            /\ \A i \in States, j \in States : IsPos(hmm.A[i][j]) => hmm'.A[i][j] # Zero
            /\ \A i \in States, k \in 1..M : IsPos(hmm.B[i][k]) => hmm'.B[i][k] # Zero
            /\ \A i \in States : IsPos(hmm.Pi[i]) => hmm'.Pi[i] # Zero
            /\ \A O \in Sequences(MaxT) :
                    Positive(Score(hmm, O)) => Positive(Score(hmm', O))]_vars

====
